---- MODULE Spec2Model ----
(***************************************************************************)
(* Model of dictionaries/update.py: the script builds the catalog of      *)
(* spell-check dictionaries from the dictionaries root, splices its JSON  *)
(* serialization into the sdkjs bundle files, and triggers the x2t cache   *)
(* rebuild.  Texts are sequences of one-character strings; indexes keep    *)
(* Python's 0-based convention.                                            *)
(***************************************************************************)
EXTENDS Integers, Sequences, FiniteSets, TLC

\* ------------------------------------------------------------------------
\* Bounds of the model
\* ------------------------------------------------------------------------
MaxPieces == 5      \* a generated bundle text is made of at most this many pieces
MaxCodes == 2       \* a generated descriptor lists at most this many codes
MaxRuns == 2        \* the script is run at most this many times in a row

\* ------------------------------------------------------------------------
\* Python string primitives
\* ------------------------------------------------------------------------
Min(S) == CHOOSE x \in S : \A y \in S : x <= y

\* s[a:b] for 0 <= a
Slice(s, a, b) == SubSeq(s, a + 1, IF b < Len(s) THEN b ELSE Len(s))

\* s[a:]
SliceFrom(s, a) == SubSeq(s, a + 1, Len(s))

\* sub occurs in content at 0-based index i
OccursAt(content, sub, i) ==
    /\ i >= 0
    /\ i + Len(sub) <= Len(content)
    /\ \A k \in 1..Len(sub) : content[i + k] = sub[k]

\* content.find(sub, start)
Find(content, sub, start) ==
    LET hits == {i \in start..(Len(content) - Len(sub)) : OccursAt(content, sub, i)}
    IN  IF hits = {} THEN -1 ELSE Min(hits)

\* "".join(parts)
RECURSIVE Flatten(_)
Flatten(parts) ==
    IF parts = <<>> THEN <<>>
    ELSE IF Len(parts) = 1 THEN parts[1]
    ELSE LET half == Len(parts) \div 2
         IN  Flatten(SubSeq(parts, 1, half)) \o Flatten(SubSeq(parts, half + 1, Len(parts)))

\* ------------------------------------------------------------------------
\* Text-mode file I/O: open(file, 'r') reads with universal newlines,
\* open(file, 'w') writes "\n" as the platform's line separator
\* ------------------------------------------------------------------------
CR == "\r"
LF == "\n"

IsChar(c) == c # ""

\* "\r\n" and a lone "\r" are read as "\n"
ReadText(data) ==
    SelectSeq([i \in 1..Len(data) |->
                  IF data[i] = CR THEN LF
                  ELSE IF data[i] = LF /\ i > 1 /\ data[i - 1] = CR THEN ""
                  ELSE data[i]],
              IsChar)

LineSep(sys) == IF sys = "Windows" THEN <<CR, LF>> ELSE <<LF>>

\* "\n" is written as os.linesep
WriteText(text, sys) ==
    IF LineSep(sys) = <<LF>> THEN text
    ELSE Flatten([i \in 1..Len(text) |-> IF text[i] = LF THEN LineSep(sys) ELSE <<text[i]>>])

\* ------------------------------------------------------------------------
\* Tokens of the patch loop
\* ------------------------------------------------------------------------
startFind ==
    <<"s","p","e","l","l","c","h","e","c","k","G","e","t",
      "L","a","n","g","u","a","g","e","s">>
startReplace == <<"f","u","n","c","t","i","o","n","(",")","{">>
endFind == <<"}", ";">>
ReturnKw == <<"r","e","t","u","r","n"," ">>

\* ------------------------------------------------------------------------
\* json.dumps(all_dictionaties, separators=(",", ":"), sort_keys=True)
\* ------------------------------------------------------------------------
Quote == "\""
Backslash == "\\"

\* code point of the characters that occur in dictionary keys
Ord(c) ==
    CASE c = Quote -> 34
      [] c = ";" -> 59
      [] c = "D" -> 68
      [] c = "E" -> 69
      [] c = "S" -> 83
      [] c = "U" -> 85
      [] c = Backslash -> 92
      [] c = "_" -> 95
      [] c = "d" -> 100
      [] c = "e" -> 101
      [] c = "n" -> 110
      [] c = "}" -> 125

\* a < b for Python strings
StrLess(a, b) ==
    LET n == IF Len(a) < Len(b) THEN Len(a) ELSE Len(b)
        diff == {i \in 1..n : a[i] # b[i]}
    IN  IF diff = {} THEN Len(a) < Len(b)
        ELSE Ord(a[Min(diff)]) < Ord(b[Min(diff)])

EscapeChar(c) ==
    IF c = Quote THEN <<Backslash, Quote>>
    ELSE IF c = Backslash THEN <<Backslash, Backslash>>
    ELSE IF c = LF THEN <<Backslash, "n">>
    ELSE IF c = CR THEN <<Backslash, "r">>
    ELSE <<c>>

JsonString(s) ==
    <<Quote>> \o Flatten([i \in 1..Len(s) |-> EscapeChar(s[i])]) \o <<Quote>>

JsonBool(b) ==
    IF b THEN <<"t","r","u","e">> ELSE <<"f","a","l","s","e">>

\* one value of the catalog: {"hyphen":<bool>,"name":"<name>"} (keys sorted)
JsonEntry(item) ==
    <<"{", Quote, "h","y","p","h","e","n", Quote, ":">> \o JsonBool(item.hyphen)
    \o <<",", Quote, "n","a","m","e", Quote, ":">> \o JsonString(item.name)
    \o <<"}">>

JsonItem(item) == JsonString(item.key) \o <<":">> \o JsonEntry(item)

\* ",".join(items)
JoinItems(items) ==
    Flatten([i \in 1..Len(items) |->
                (IF i > 1 THEN <<",">> ELSE <<>>) \o JsonItem(items[i])])

\* the items of an insertion-ordered dict, ordered by key
RECURSIVE SortItems(_)
SortItems(items) ==
    IF items = <<>> THEN <<>>
    ELSE LET i == CHOOSE i \in 1..Len(items) :
                     \A j \in 1..Len(items) : j # i => StrLess(items[i].key, items[j].key)
             rest == [j \in 1..(Len(items) - 1) |-> IF j < i THEN items[j] ELSE items[j + 1]]
         IN  <<items[i]>> \o SortItems(rest)

\* variant: json.dumps without sort_keys
DumpsUnsorted(d) == <<"{">> \o JoinItems(d) \o <<"}">>

Dumps(d) == <<"{">> \o JoinItems(SortItems(d)) \o <<"}">>

\* ------------------------------------------------------------------------
\* The catalog, a Python dict: items in insertion order, keys unique
\* ------------------------------------------------------------------------
Keys(d) == {d[i].key : i \in 1..Len(d)}

\* d[key] = {"name": name, "hyphen": hyphen}
DictSet(d, key, name, hyphen) ==
    LET item == [key |-> key, name |-> name, hyphen |-> hyphen]
    IN  IF key \in Keys(d)
        THEN [i \in 1..Len(d) |-> IF d[i].key = key THEN item ELSE d[i]]
        ELSE Append(d, item)

\* variant: only the first code of the list is set
AddCodesFirstOnly(d, codes, name, hyphen) ==
    IF codes = <<>> THEN d ELSE DictSet(d, Head(codes), name, hyphen)

\* for lang in data["codes"]: all_dictionaties[str(lang)] = {...}
RECURSIVE AddCodes(_, _, _, _)
AddCodes(d, codes, name, hyphen) ==
    IF codes = <<>> THEN d
    ELSE AddCodes(DictSet(d, Head(codes), name, hyphen), Tail(codes), name, hyphen)

\* ------------------------------------------------------------------------
\* The splice of the patch loop
\* ------------------------------------------------------------------------
\* content.find(startFind)
StartIndex(content) == Find(content, startFind, 0)

\* content.find(startReplace, startIndex)
StartReplaceIndex(content) == Find(content, startReplace, StartIndex(content))

\* content.find(endFind, startIndex)
EndFindIndex(content) == Find(content, endFind, StartIndex(content))

HasMarker(content) == StartIndex(content) # -1

HasFunctionStart(content) == StartReplaceIndex(content) # -1

\* variant: endIndex is not compared with -1
HasTerminatorUnchecked(content) == TRUE

HasTerminator(content) == EndFindIndex(content) # -1

\* variant: a doubled closer is not absorbed
EndIndexNoExtension(content) == EndFindIndex(content)

\* if content[endIndex + 2:endIndex + 4] == "};": endIndex += 2
EndIndex(content) ==
    LET endIndex == EndFindIndex(content)
    IN  IF Slice(content, endIndex + 2, endIndex + 4) = endFind
        THEN endIndex + 2
        ELSE endIndex

\* content[:startReplaceIndex + len(startReplace)] + "return " + catalog
\*   + endFind + content[endIndex + len(endFind):]
\* variant: the text after the cut is not appended
NewContentTruncated(content, catalog) ==
    Slice(content, 0, StartReplaceIndex(content) + Len(startReplace))
    \o ReturnKw \o catalog \o endFind

\* variant: the statement is inserted and the old body kept
NewContentInserted(content, catalog) ==
    Slice(content, 0, StartReplaceIndex(content) + Len(startReplace))
    \o ReturnKw \o catalog \o endFind
    \o SliceFrom(content, StartReplaceIndex(content) + Len(startReplace))

NewContent(content, catalog) ==
    Slice(content, 0, StartReplaceIndex(content) + Len(startReplace))
    \o ReturnKw \o catalog \o endFind
    \o SliceFrom(content, EndIndex(content) + Len(endFind))

\* ------------------------------------------------------------------------
\* The file system and the platform the script runs on
\* ------------------------------------------------------------------------
EnUS == <<"e","n","_","U","S">>
DeDE == <<"d","e","_","D","E">>
DictNames == {EnUS, DeDE}          \* entries of the dictionaries root

CodeEn == <<"e","n">>
CodeDe == <<"d","e">>
CodeOdd == <<"}", ";">>
Codes == {CodeEn, CodeDe}

SdkEntries == {"common", "word"}    \* entries of the sdkjs root
MinName == "sdk-all-min.js"
AllName == "sdk-all.js"
SpellJs == <<"common", "spell/spell.js">>
Paths == {SpellJs} \cup (SdkEntries \X {MinName, AllName})

Systems == {"Linux", "Windows"}     \* platform.system()
GitKinds == {"absent", "file", "dir"}   \* what sdkjs/.git is

Lower(system) == IF system = "Windows" THEN "windows" ELSE "linux"

NoticeText == "Not in develop version, skipping x2t cache update"
CacheFlag == "-create-js-cache"

VARIABLES
    dictionaries,              \* dictionaries root: name -> [isdir, config, codes, hyphen]
    sdkDirs,                   \* sdkjs root: entry -> is a directory
    files,                     \* candidate path -> [isfile, data]
    gitKind,                   \* sdkjs/.git
    system,                    \* platform.system()
    pc,                        \* position of the script
    globbed,                   \* entries of the dictionaries root already enumerated
    all_dictionaties,          \* the catalog dict
    all_dictionaties_content,  \* its serialization
    filesReplace,              \* candidates not yet visited by the patch loop
    x2tBin,                    \* path of the converter
    stdout,                    \* lines printed
    calls,                     \* subprocess.call invocations made
    run,                       \* number of the current run of the script
    before,                    \* files as they were when the current run started
    written,                   \* path -> number of times the current run wrote it
    prevWritten,               \* paths the previous run wrote
    prevDict,                  \* all_dictionaties of the previous run
    prevContent                \* all_dictionaties_content of the previous run

vars == <<dictionaries, sdkDirs, files, gitKind, system, pc, globbed,
          all_dictionaties, all_dictionaties_content, filesReplace, x2tBin,
          stdout, calls, run, before, written, prevWritten, prevDict,
          prevContent>>

fsVars == <<dictionaries, sdkDirs, gitKind, system>>
histVars == <<run, before, prevWritten, prevDict, prevContent>>

\* ------------------------------------------------------------------------
\* Catalog build loop
\* ------------------------------------------------------------------------
\* os.path.isfile(configFile)
HasConfig(entry) == entry.config # "absent"

\* variant: a config file that does not load is read as declaring no code
ConfigLoadsIgnoringErrors(entry) == TRUE

\* json.loads(file.read()) succeeds and data["codes"] exists
ConfigLoads(entry) == entry.config = "valid"

\* os.path.isfile(hyphenFile)
IsHyphen(entry) == entry.hyphen

\* glob yields an entry that is not a directory
BuildSkipNotDir(d) ==
    /\ pc = "build"
    /\ d \in DictNames \ globbed
    /\ ~dictionaries[d].isdir
    /\ globbed' = globbed \cup {d}
    /\ UNCHANGED <<fsVars, histVars, files, pc, all_dictionaties,
                   all_dictionaties_content, filesReplace, x2tBin, stdout,
                   calls, written>>

\* glob yields a directory without its config file
BuildSkipNoConfig(d) ==
    /\ pc = "build"
    /\ d \in DictNames \ globbed
    /\ dictionaries[d].isdir
    /\ ~HasConfig(dictionaries[d])
    /\ globbed' = globbed \cup {d}
    /\ UNCHANGED <<fsVars, histVars, files, pc, all_dictionaties,
                   all_dictionaties_content, filesReplace, x2tBin, stdout,
                   calls, written>>

\* json.loads or data["codes"] raises: the exception ends the script
BuildFail(d) ==
    /\ pc = "build"
    /\ d \in DictNames \ globbed
    /\ dictionaries[d].isdir
    /\ HasConfig(dictionaries[d])
    /\ ~ConfigLoads(dictionaries[d])
    /\ globbed' = globbed \cup {d}
    /\ pc' = "failed"
    /\ UNCHANGED <<fsVars, histVars, files, all_dictionaties,
                   all_dictionaties_content, filesReplace, x2tBin, stdout,
                   calls, written>>

\* a descriptor: every code it lists is set in the catalog
BuildAdd(d) ==
    /\ pc = "build"
    /\ d \in DictNames \ globbed
    /\ dictionaries[d].isdir
    /\ HasConfig(dictionaries[d])
    /\ ConfigLoads(dictionaries[d])
    /\ globbed' = globbed \cup {d}
    /\ all_dictionaties' = AddCodes(all_dictionaties, dictionaries[d].codes, d,
                                    IsHyphen(dictionaries[d]))
    /\ UNCHANGED <<fsVars, histVars, files, pc, all_dictionaties_content,
                   filesReplace, x2tBin, stdout, calls, written>>

\* the loop is over: all_dictionaties_content = json.dumps(...)
Serialize ==
    /\ pc = "build"
    /\ globbed = DictNames
    /\ all_dictionaties_content' = Dumps(all_dictionaties)
    /\ pc' = "collect"
    /\ UNCHANGED <<fsVars, histVars, files, globbed, all_dictionaties,
                   filesReplace, x2tBin, stdout, calls, written>>

\* ------------------------------------------------------------------------
\* Candidate files
\* ------------------------------------------------------------------------
IsFile(path) == files[path].isfile

CandidatesOf(e) ==
    IF ~sdkDirs[e] THEN <<>>
    ELSE (IF IsFile(<<e, MinName>>) THEN <<(<<e, MinName>>)>> ELSE <<>>)
         \o (IF IsFile(<<e, AllName>>) THEN <<(<<e, AllName>>)>> ELSE <<>>)

\* the orders in which glob may yield the entries of the sdkjs root
GlobOrders(S) ==
    {o \in [1..Cardinality(S) -> S] : \A e \in S : \E i \in DOMAIN o : o[i] = e}

\* filesReplace = [spell.js] + the bundles found in each editor directory
Collect ==
    /\ pc = "collect"
    /\ \E order \in GlobOrders(SdkEntries) :
          filesReplace' = <<SpellJs>>
                          \o Flatten([i \in DOMAIN order |-> CandidatesOf(order[i])])
    /\ pc' = "patch"
    /\ UNCHANGED <<fsVars, histVars, files, globbed, all_dictionaties,
                   all_dictionaties_content, x2tBin, stdout, calls, written>>

\* ------------------------------------------------------------------------
\* Patch loop
\* ------------------------------------------------------------------------
Content(path) == ReadText(files[path].data)

\* the loop goes on to the next candidate, or ends
NextFile ==
    /\ filesReplace' = Tail(filesReplace)
    /\ pc' = IF Tail(filesReplace) = <<>> THEN "trigger" ELSE "patch"

PatchSkipMissing ==
    /\ pc = "patch"
    /\ ~IsFile(Head(filesReplace))
    /\ NextFile
    /\ UNCHANGED <<fsVars, histVars, files, globbed, all_dictionaties,
                   all_dictionaties_content, x2tBin, stdout, calls, written>>

PatchSkipNoMarker ==
    /\ pc = "patch"
    /\ IsFile(Head(filesReplace))
    /\ ~HasMarker(Content(Head(filesReplace)))
    /\ NextFile
    /\ UNCHANGED <<fsVars, histVars, files, globbed, all_dictionaties,
                   all_dictionaties_content, x2tBin, stdout, calls, written>>

PatchSkipNoFunction ==
    /\ pc = "patch"
    /\ IsFile(Head(filesReplace))
    /\ HasMarker(Content(Head(filesReplace)))
    /\ ~HasFunctionStart(Content(Head(filesReplace)))
    /\ NextFile
    /\ UNCHANGED <<fsVars, histVars, files, globbed, all_dictionaties,
                   all_dictionaties_content, x2tBin, stdout, calls, written>>

PatchSkipNoTerminator ==
    /\ pc = "patch"
    /\ IsFile(Head(filesReplace))
    /\ HasMarker(Content(Head(filesReplace)))
    /\ HasFunctionStart(Content(Head(filesReplace)))
    /\ ~HasTerminator(Content(Head(filesReplace)))
    /\ NextFile
    /\ UNCHANGED <<fsVars, histVars, files, globbed, all_dictionaties,
                   all_dictionaties_content, x2tBin, stdout, calls, written>>

PatchWrite ==
    /\ pc = "patch"
    /\ IsFile(Head(filesReplace))
    /\ HasMarker(Content(Head(filesReplace)))
    /\ HasFunctionStart(Content(Head(filesReplace)))
    /\ HasTerminator(Content(Head(filesReplace)))
    /\ LET file == Head(filesReplace)
           content == NewContent(Content(file), all_dictionaties_content)
       IN  /\ files' = [files EXCEPT ![file].data = WriteText(content, system)]
           /\ written' = [written EXCEPT ![file] = @ + 1]
    /\ NextFile
    /\ UNCHANGED <<fsVars, histVars, globbed, all_dictionaties,
                   all_dictionaties_content, x2tBin, stdout, calls>>

\* ------------------------------------------------------------------------
\* Cache trigger
\* ------------------------------------------------------------------------
\* variant: os.path.isfile in place of os.path.isdir
IsDevelopVersionIsFile == gitKind = "file"

\* os.path.isdir(testDevelopVersion)
IsDevelopVersion == gitKind = "dir"

IsWindows == Lower(system) = "windows"

\* sdkjs/.git is a directory: nothing is printed, nothing is called
TriggerDevelop ==
    /\ pc = "trigger"
    /\ IsDevelopVersion
    /\ pc' = "done"
    /\ UNCHANGED <<fsVars, histVars, files, globbed, all_dictionaties,
                   all_dictionaties_content, filesReplace, x2tBin, stdout,
                   calls, written>>

\* otherwise the notice is printed and the converter path computed
TriggerNotice ==
    /\ pc = "trigger"
    /\ ~IsDevelopVersion
    /\ stdout' = Append(stdout, NoticeText)
    /\ x2tBin' = IF IsWindows THEN "x2t.exe" ELSE "x2t"
    /\ pc' = IF IsWindows THEN "call_list" ELSE "call_command"
    /\ UNCHANGED <<fsVars, histVars, files, globbed, all_dictionaties,
                   all_dictionaties_content, filesReplace, calls, written>>

\* on Windows: subprocess.call([x2tBin, "-create-js-cache"], ...)
CallList ==
    /\ pc = "call_list"
    /\ \E returncode \in {0, 1} :
          calls' = Append(calls, [bin |-> x2tBin, flags |-> <<CacheFlag>>,
                                  returncode |-> returncode])
    /\ pc' = "call_command"
    /\ UNCHANGED <<fsVars, histVars, files, globbed, all_dictionaties,
                   all_dictionaties_content, filesReplace, x2tBin, stdout,
                   written>>

\* subprocess.call(x2tBin + " -create-js-cache", ...); the script ends
CallCommand ==
    /\ pc = "call_command"
    /\ \E returncode \in {0, 1} :
          calls' = Append(calls, [bin |-> x2tBin, flags |-> <<CacheFlag>>,
                                  returncode |-> returncode])
    /\ pc' = "done"
    /\ UNCHANGED <<fsVars, histVars, files, globbed, all_dictionaties,
                   all_dictionaties_content, filesReplace, x2tBin, stdout,
                   written>>

\* ------------------------------------------------------------------------
\* The script is run again on the tree the previous run left
\* ------------------------------------------------------------------------
NoWrites == [p \in Paths |-> 0]

Rerun ==
    /\ pc = "done"
    /\ run < MaxRuns
    /\ run' = run + 1
    /\ before' = files
    /\ prevWritten' = {p \in Paths : written[p] > 0}
    /\ prevDict' = all_dictionaties
    /\ prevContent' = all_dictionaties_content
    /\ pc' = "build"
    /\ globbed' = {}
    /\ all_dictionaties' = <<>>
    /\ all_dictionaties_content' = <<>>
    /\ filesReplace' = <<>>
    /\ x2tBin' = ""
    /\ stdout' = <<>>
    /\ calls' = <<>>
    /\ written' = NoWrites
    /\ UNCHANGED <<fsVars, files>>

Next ==
    \/ \E d \in DictNames : BuildSkipNotDir(d)
    \/ \E d \in DictNames : BuildSkipNoConfig(d)
    \/ \E d \in DictNames : BuildFail(d)
    \/ \E d \in DictNames : BuildAdd(d)
    \/ Serialize
    \/ Collect
    \/ PatchSkipMissing
    \/ PatchSkipNoMarker
    \/ PatchSkipNoFunction
    \/ PatchSkipNoTerminator
    \/ PatchWrite
    \/ TriggerDevelop
    \/ TriggerNotice
    \/ CallList
    \/ CallCommand
    \/ Rerun

\* ------------------------------------------------------------------------
\* Initial states: a tree on disk, and the script about to start
\* ------------------------------------------------------------------------
NotDirEntry == [isdir |-> FALSE, config |-> "absent", codes |-> <<>>, hyphen |-> FALSE]

DirEntry(config, codes, hyphen) ==
    [isdir |-> TRUE, config |-> config, codes |-> codes, hyphen |-> hyphen]

CodeLists == UNION {[1..k -> Codes] : k \in 0..MaxCodes}

DictEntries ==
    {NotDirEntry}
    \cup {DirEntry(c, <<>>, h) : c \in {"absent", "malformed", "nocodes"}, h \in BOOLEAN}
    \cup {DirEntry("valid", cs, h) : cs \in CodeLists, h \in BOOLEAN}

AllTrees == [DictNames -> DictEntries]

TreeSimple == (EnUS :> DirEntry("valid", <<CodeEn>>, TRUE)) @@ (DeDE :> NotDirEntry)
TreeOdd == (EnUS :> DirEntry("valid", <<CodeOdd>>, FALSE))
           @@ (DeDE :> DirEntry("absent", <<>>, TRUE))
TreeMalformed == (EnUS :> DirEntry("valid", <<CodeDe, CodeEn>>, FALSE))
                 @@ (DeDE :> DirEntry("malformed", <<>>, FALSE))
TreeNoCodes == (EnUS :> DirEntry("nocodes", <<>>, TRUE)) @@ (DeDE :> NotDirEntry)
TreeThree == (EnUS :> DirEntry("valid", <<CodeOdd, CodeEn>>, FALSE))
             @@ (DeDE :> DirEntry("valid", <<CodeDe>>, TRUE))
BaseTrees == {TreeSimple, TreeOdd, TreeMalformed, TreeNoCodes, TreeThree}

Pieces == {startFind, startReplace, endFind, <<"x">>, <<CR, LF>>}

TextsUpTo(n) == {Flatten(ps) : ps \in UNION {[1..k -> Pieces] : k \in 0..n}}

NoFile == [isfile |-> FALSE, data |-> <<>>]
File(data) == [isfile |-> TRUE, data |-> data]

StdBundle == Flatten(<<startFind, <<"=">>, startReplace, <<"x">>, endFind, <<LF>>>>)

\* every candidate path present, one of each kind the patch loop tells apart
SdkFull ==
    (SpellJs :> File(StdBundle))
    @@ (<<"common", MinName>> :> File(<<"x">>))
    @@ (<<"common", AllName>> :> File(startFind))
    @@ (<<"word", MinName>> :> File(startFind \o startReplace))
    @@ (<<"word", AllName>> :> NoFile)

SdkEmpty == [p \in Paths |-> NoFile]

SdkSpell(data) == [p \in Paths |-> IF p = SpellJs THEN File(data) ELSE NoFile]

AllDirs == [e \in SdkEntries |-> TRUE]
NoDirs == [e \in SdkEntries |-> FALSE]

Start(tree, dirs, fs, git, sys) ==
    /\ dictionaries = tree
    /\ sdkDirs = dirs
    /\ files = fs
    /\ gitKind = git
    /\ system = sys
    /\ pc = "build"
    /\ globbed = {}
    /\ all_dictionaties = <<>>
    /\ all_dictionaties_content = <<>>
    /\ filesReplace = <<>>
    /\ x2tBin = ""
    /\ stdout = <<>>
    /\ calls = <<>>
    /\ run = 1
    /\ before = fs
    /\ written = NoWrites
    /\ prevWritten = {}
    /\ prevDict = <<>>
    /\ prevContent = <<>>

\* a few trees, every platform and every kind of sdkjs/.git
Init ==
    \E tree \in BaseTrees, git \in GitKinds, sys \in Systems :
        \/ Start(tree, AllDirs, SdkFull, git, sys)
        \/ Start(tree, NoDirs, SdkEmpty, git, sys)

\* every tree of descriptors
InitCatalog ==
    \/ Init
    \/ \E tree \in AllTrees : Start(tree, AllDirs, SdkSpell(StdBundle), "dir", "Linux")

\* every bundle text
InitPatch ==
    \/ Init
    \/ \E text \in TextsUpTo(MaxPieces) :
          Start(TreeSimple, AllDirs, SdkSpell(text), "dir", "Linux")
    \/ \E text \in TextsUpTo(MaxPieces - 1) :
          \/ Start(TreeOdd, AllDirs, SdkSpell(text), "dir", "Linux")
          \/ Start(TreeSimple, AllDirs, SdkSpell(text), "absent", "Windows")

Spec == Init /\ [][Next]_vars
SpecCatalog == InitCatalog /\ [][Next]_vars
SpecPatch == InitPatch /\ [][Next]_vars

\* ------------------------------------------------------------------------
\* Properties
\* ------------------------------------------------------------------------
Range(seq) == {seq[i] : i \in DOMAIN seq}

AfterBuild == pc \notin {"build", "failed"}
AfterPatch == pc \in {"trigger", "call_list", "call_command", "done"}

\* directories whose config file exists and declares codes
Descriptors ==
    {d \in DictNames : dictionaries[d].isdir /\ dictionaries[d].config = "valid"}

\* directories whose config file exists and is malformed or lacks "codes"
BadDescriptors ==
    {d \in DictNames : /\ dictionaries[d].isdir
                       /\ dictionaries[d].config \in {"malformed", "nocodes"}}

DeclaredCodes == UNION {Range(dictionaries[d].codes) : d \in Descriptors}

\* C2: once the build loop is over, the keys of the catalog are exactly the
\* codes declared by the config files of the subdirectories of the root, and
\* the entry of a key names a subdirectory declaring it, with hyphen true iff
\* that subdirectory has its hyphenation file; entries that are not
\* directories and directories without config file add no key and raise no
\* error (the script fails only on a config file that does not load).
C2_CatalogExact ==
    /\ AfterBuild =>
         /\ Keys(all_dictionaties) = DeclaredCodes
         /\ Len(all_dictionaties) = Cardinality(DeclaredCodes)
         /\ \A i \in DOMAIN all_dictionaties :
               \E d \in Descriptors :
                  /\ all_dictionaties[i].key \in Range(dictionaries[d].codes)
                  /\ all_dictionaties[i].name = d
                  /\ all_dictionaties[i].hyphen = dictionaries[d].hyphen
    /\ pc = "failed" => BadDescriptors # {}

\* a valid descriptor without hyphenation file beside a subdirectory that
\* has the hyphenation file but no config file
C2_Witness ==
    /\ pc = "done"
    /\ \E d \in Descriptors, e \in DictNames \ Descriptors :
          /\ Len(dictionaries[d].codes) = 2
          /\ ~dictionaries[d].hyphen
          /\ dictionaries[e].isdir
          /\ dictionaries[e].hyphen
          /\ Len(all_dictionaties) = 2

\* no code is declared by two descriptors
NoSharedCode ==
    \A d \in Descriptors, e \in Descriptors :
        d # e => Range(dictionaries[d].codes) \cap Range(dictionaries[e].codes) = {}

\* C6 as claimed: a second run over the unchanged tree serializes the same
\* catalog as the first, whatever the two enumeration orders were.
C6_Deterministic ==
    (run >= 2 /\ AfterBuild) => all_dictionaties_content = prevContent

\* C6, amended: a second run over the unchanged tree serializes the same
\* catalog as the first, whatever the two enumeration orders were, provided
\* no code is declared by two descriptors.
C6_DeterministicNoSharedCode ==
    (run >= 2 /\ AfterBuild /\ NoSharedCode) => all_dictionaties_content = prevContent

\* the two runs enumerated two descriptors in different orders
C6_Witness ==
    /\ run >= 2
    /\ pc = "done"
    /\ NoSharedCode
    /\ Len(all_dictionaties) >= 2
    /\ all_dictionaties # prevDict
    /\ all_dictionaties_content = prevContent

\* C8: with a config file that is malformed or lacks "codes", the script
\* never leaves the build loop, fails once that file has been enumerated,
\* and then no candidate file was written and no converter call made.
C8_AbortOnBadConfig ==
    BadDescriptors # {} =>
        /\ pc \in {"build", "failed"}
        /\ BadDescriptors \cap globbed # {} => pc = "failed"
        /\ files = before
        /\ written = NoWrites
        /\ calls = <<>>
        /\ stdout = <<>>

\* the failure came after a valid descriptor had been read
C8_Witness ==
    /\ pc = "failed"
    /\ Descriptors # {}
    /\ all_dictionaties # <<>>
    /\ files = before

\* C7: while sdkjs/.git is a directory the converter is never called.
C7_NoCallInDevelop ==
    gitKind = "dir" => (calls = <<>> /\ pc \notin {"call_list", "call_command"})

C7_Witness == gitKind = "dir" /\ pc = "done" /\ written # NoWrites

\* C9 as claimed: the notice is printed exactly in the runs that skip the
\* trigger: with sdkjs/.git present the converter is not called and the
\* notice is printed, without it the converter is called and nothing printed.
C9_NoticeIffSkipped ==
    pc = "done" =>
        /\ gitKind = "dir" => (calls = <<>> /\ stdout = <<NoticeText>>)
        /\ gitKind = "absent" => (calls # <<>> /\ stdout = <<>>)

\* C10 as claimed: a run that reaches the trigger without sdkjs/.git calls
\* the converter exactly once, with the one flag, whatever the platform.
C10_CalledOnce ==
    (pc = "done" /\ gitKind = "absent") =>
        /\ Len(calls) = 1
        /\ calls[1].flags = <<CacheFlag>>

\* ------------------------------------------------------------------------
\* Properties of the patch loop
\* ------------------------------------------------------------------------
\* i is the first index >= from at which tok occurs in text
IsFirst(text, tok, from, i) ==
    /\ i >= from
    /\ OccursAt(text, tok, i)
    /\ \A k \in from..(i - 1) : ~OccursAt(text, tok, k)

OccursFrom(text, tok, from) == \E i \in from..Len(text) : OccursAt(text, tok, i)

\* the marker, then a function(){ and a }; at or after the first marker
Matched(text) ==
    \E m \in 0..Len(text) :
        /\ IsFirst(text, startFind, 0, m)
        /\ OccursFrom(text, startReplace, m)
        /\ OccursFrom(text, endFind, m)

Inserted == ReturnKw \o all_dictionaties_content \o endFind

\* text[:keep] + "return <catalog>};" + text[cut:]
Spliced(text, keep, cut) == Slice(text, 0, keep) \o Inserted \o SliceFrom(text, cut)

\* the first index >= from at which tok occurs in text
FirstIndex(text, tok, from) ==
    CHOOSE i \in from..Len(text) : IsFirst(text, tok, from, i)

\* where the replaced span starts: after the first function(){ that follows
\* the first marker
KeepOf(text) ==
    FirstIndex(text, startReplace, FirstIndex(text, startFind, 0)) + Len(startReplace)

\* where the replaced span ends: after the first }; that follows the first
\* marker, and after the }; next to it when there is one
CutOf(text) ==
    LET e == FirstIndex(text, endFind, FirstIndex(text, startFind, 0))
    IN  IF OccursAt(text, endFind, e + Len(endFind))
        THEN e + 2 * Len(endFind)
        ELSE e + Len(endFind)

\* C1 as claimed: a candidate matching the pattern is rewritten to its text
\* up to and including the first function(){ after the first marker, then
\* "return <catalog>};", then its text after the first }; that follows that
\* function(){ (texts compared as read in text mode).
C1_SpliceAfterFunction ==
    \A p \in Paths :
        written[p] > 0 =>
            LET text == ReadText(before[p].data)
            IN  /\ OccursFrom(text, endFind, KeepOf(text))
                /\ ReadText(files[p].data) =
                      Spliced(text, KeepOf(text),
                              FirstIndex(text, endFind, KeepOf(text)) + Len(endFind))

\* C1, amended: a candidate whose text (as read in text mode) matches the
\* pattern is rewritten, once the patch loop is over, and what is written is
\* (in text mode) its text up to and including the first function(){ after
\* the first marker, then "return <catalog>};", then its text after the cut:
\* the first }; at or after the first marker, even one that precedes the
\* function(){, together with the }; immediately following it if any.
C1_Splice ==
    \A p \in Paths :
        LET text == ReadText(before[p].data)
        IN  /\ (AfterPatch /\ before[p].isfile /\ Matched(text)) => written[p] = 1
            /\ written[p] > 0 =>
                  files[p].data = WriteText(Spliced(text, KeepOf(text), CutOf(text)), system)

\* a written file whose terminator has a doubled closer and more text after
C1_Witness ==
    /\ pc = "done"
    /\ written[SpellJs] = 1
    /\ LET text == ReadText(before[SpellJs].data)
       IN  /\ CutOf(text) > KeepOf(text)
           /\ OccursAt(text, endFind, CutOf(text) - 2 * Len(endFind))
           /\ OccursAt(text, endFind, CutOf(text) - Len(endFind))
           /\ CutOf(text) < Len(text)

\* C3: a candidate without the marker, or without function(){ at or after
\* the first marker, or without }; at or after the first marker, keeps its
\* bytes and is never written; the script does not fail in the patch loop.
C3_SkippedUntouched ==
    /\ \A p \in Paths :
          (before[p].isfile /\ ~Matched(before[p].data)) =>
              (files[p] = before[p] /\ written[p] = 0)
    /\ pc = "failed" => (BadDescriptors \cap globbed # {} /\ filesReplace = <<>>)

\* the loop went past candidates of each of the three kinds
C3_Witness ==
    /\ pc = "done"
    /\ written[SpellJs] = 1
    /\ \E p \in Paths : before[p].isfile /\ ~OccursFrom(before[p].data, startFind, 0)
    /\ \E p \in Paths :
          /\ before[p].isfile
          /\ OccursFrom(before[p].data, startFind, 0)
          /\ ~OccursFrom(before[p].data, startReplace, 0)
    /\ \E p \in Paths :
          /\ before[p].isfile
          /\ OccursFrom(before[p].data, startFind, 0)
          /\ OccursFrom(before[p].data, startReplace, 0)
          /\ ~OccursFrom(before[p].data, endFind, 0)
          /\ files[p] = before[p]

Occurrences(text, tok) == {i \in 0..Len(text) : OccursAt(text, tok, i)}

\* C4 as claimed: a file is written at most once in a run, and every
\* occurrence of the marker is still there in the patched file.
C4_LaterMarkersKept ==
    \A p \in Paths :
        /\ written[p] <= 1
        /\ written[p] > 0 =>
              Cardinality(Occurrences(ReadText(files[p].data), startFind))
                  >= Cardinality(Occurrences(ReadText(before[p].data), startFind))

\* C4, amended: a file is written at most once in a run, and every
\* occurrence of the marker outside the replaced span is still there in the
\* patched file: at its index when it ends before the span, moved by the
\* change of length when it starts after the cut.
C4_OutsideMarkersKept ==
    \A p \in Paths :
        /\ written[p] <= 1
        /\ written[p] > 0 =>
              LET old == ReadText(before[p].data)
                  new == ReadText(files[p].data)
                  keep == KeepOf(old)
                  cut == CutOf(old)
              IN  \A i \in Occurrences(old, startFind) :
                      /\ i + Len(startFind) <= keep => OccursAt(new, startFind, i)
                      /\ i >= cut =>
                            OccursAt(new, startFind, i + keep + Len(Inserted) - cut)

\* a patched file with a marker after the cut
C4_Witness ==
    /\ pc = "done"
    /\ written[SpellJs] = 1
    /\ LET old == ReadText(before[SpellJs].data)
       IN  /\ \E i \in Occurrences(old, startFind) : i >= CutOf(old)
           /\ Cardinality(Occurrences(ReadText(files[SpellJs].data), startFind)) = 2

\* C5 as claimed: a second run with the same catalog leaves every file the
\* first run patched as the first run left it.
C5_Idempotent ==
    (run >= 2 /\ AfterPatch /\ all_dictionaties_content = prevContent) =>
        \A p \in prevWritten : files[p] = before[p]

\* in the patched text, the first }; at or after the first marker is the one
\* that closes the inserted return statement, and no }; follows it directly
Settled(text) == CutOf(text) = KeepOf(text) + Len(Inserted)

\* C5, amended: a second run with the same catalog leaves a file the first
\* run patched as the first run left it, provided that in the patched file
\* the first }; at or after the first marker is the one closing the inserted
\* return statement (none between the marker and the function(){, none in
\* the serialized catalog) and is not directly followed by another };.
C5_IdempotentWhenSettled ==
    (run >= 2 /\ AfterPatch /\ all_dictionaties_content = prevContent) =>
        \A p \in prevWritten :
            Settled(ReadText(before[p].data)) => files[p] = before[p]

\* a file patched by both runs and left unchanged by the second
C5_Witness ==
    /\ run >= 2
    /\ pc = "done"
    /\ SpellJs \in prevWritten
    /\ written[SpellJs] = 1
    /\ Settled(ReadText(before[SpellJs].data))
    /\ files[SpellJs] = before[SpellJs]
    /\ Len(before[SpellJs].data) > Len(StdBundle) + Len(Inserted)

====
